---- MODULE Spec2Model ----
(***************************************************************************)
(* PersonRepository (NABManagement/repository/PersonRepository.py): a list *)
(* of people kept sorted by id, with add / find / find_by_* / remove.      *)
(*                                                                         *)
(* Python values are tagged records ([type |-> ..., ...]); an operation's  *)
(* outcome is Return(value) or Raise(message).  Repository objects live in *)
(* a heap (object reference -> the object's __list), so that two handles   *)
(* on one object and two distinct objects are different states.            *)
(***************************************************************************)
EXTENDS Integers, Sequences, FiniteSets, TLC

VARIABLES
    list,     \* heap: object reference -> that PersonRepository's self.__list
    P,        \* the caller's handle on the repository a find_by_* returned
    call,     \* the last call: [op, via, self, arg]
    result,   \* its outcome: Return(value) or Raise(message)
    pre,      \* the heap as it was when the last call started
    thr,      \* two threads calling add on L: where each is in add
    touched   \* L's list was created or written to since a sort last emptied it

vars == <<list, P, call, result, pre, thr, touched>>

----------------------------------------------------------------------------
(* Bounds *)

MaxId == 3          \* ids of the people are 1..MaxId
MaxSnapId == 2      \* ids of the people in the snapshot specification
MaxAliasLen == 3    \* the caller appends to a list shorter than this

----------------------------------------------------------------------------
(* Python values *)

None == [type |-> "NoneType"]
int(i) == [type |-> "int", val |-> i]
str(s) == [type |-> "str", val |-> s]
EmptyList == [type |-> "list", val |-> <<>>]
Person(id, name, phone, address) ==
    [type |-> "Person", id |-> id, name |-> name, phone |-> phone, address |-> address]

\* a reference to a PersonRepository object
Repo(ref) == [type |-> "PersonRepository", ref |-> ref]
\* all() hands out the object's own list: the value is a reference to it
ListOf(ref) == [type |-> "list", ref |-> ref]
\* iter(list): the items the iterator yields
Iterator(items) == [type |-> "list_iterator", items |-> items]

Return(v) == [kind |-> "return", value |-> v]
Raise(msg) == [kind |-> "raise", exc |-> "NABException", msg |-> msg]
\* an exception the interpreter raises
RaiseExc(exc, msg) == [kind |-> "raise", exc |-> exc, msg |-> msg]
\* a loop goes on to its next round
Continue == [kind |-> "continue"]

MsgPerson == "The given person is not valid."
MsgDuplicate == "There's already a person with that ID."
MsgId == "The given ID is not a positive integer."
MsgNotFound == "No person with the given ID was found."
MsgName == "The given name is not a string."
MsgAddress == "The given address is not a string."
MsgPhone == "The given phone number is not a string."
MsgPosition == "The given position is not valid."
MsgIndex == "list index out of range"
MsgSort == "list modified during sort"

\* PersonValidator.valid_id: an integer strictly greater than zero
valid_id(v) == v.type = "int" /\ v.val > 0

\* `s and s in t`: an empty s matches nothing
ContainsNonEmpty(t, s) ==
    /\ s # ""
    /\ \E i \in 0..(Len(t) - Len(s)) : SubSeq(t, i + 1, i + Len(s)) = s

\* Python's `s in t` on two strs: s is a contiguous part of t
Contains(t, s) ==
    \E i \in 0..(Len(t) - Len(s)) : SubSeq(t, i + 1, i + Len(s)) = s

----------------------------------------------------------------------------
(* The heap *)

First == "repo1"         \* the object the caller's L = PersonRepository() made
Fresh == "repo2"         \* the object a later PersonRepository() call allocates
Refs == {First, Fresh}
NoHandle == "None"       \* the caller's P names no object

\* PersonRepository(): a new object whose list is empty
PersonRepository(h) == [h EXCEPT ![Fresh] = <<>>]

\* list.sort(key = lambda x: x.id): stable, ascending id
RECURSIVE Insert(_, _)
Insert(s, x) ==
    IF s = <<>> THEN <<x>>
    ELSE IF s[Len(s)].id <= x.id THEN Append(s, x)
    ELSE Append(Insert(SubSeq(s, 1, Len(s) - 1), x), s[Len(s)])

RECURSIVE SortById(_)
SortById(s) ==
    IF s = <<>> THEN <<>>
    ELSE Insert(SortById(SubSeq(s, 1, Len(s) - 1)), s[Len(s)])

\* list.pop() in place of list.pop(pos)
PopLast(s, pos) == SubSeq(s, 1, Len(s) - 1)

\* list.pop(pos), pos a valid 0-based position: the list without that item
Pop(s, pos) == SubSeq(s, 1, pos) \o SubSeq(s, pos + 2, Len(s))

----------------------------------------------------------------------------
(* The methods, as functions of the heap h and the receiver self.          *)
(* Each gives [heap |-> the heap afterwards, result |-> the outcome].      *)

Out(h, r) == [heap |-> h, result |-> r]

\* `return i + 1`: positions counted from one
findFromOne(h, self, id) ==
    IF ~valid_id(id) THEN Out(h, Raise(MsgId))
    ELSE LET hits == {i \in 1..Len(h[self]) : h[self][i].id = id.val}
         IN  IF hits # {}
             THEN Out(h, Return(int(CHOOSE i \in hits : \A j \in hits : i <= j)))
             ELSE Out(h, Return(int(-1)))

\* find(id): position of the first person with that id, or -1
find(h, self, id) ==
    IF ~valid_id(id) THEN Out(h, Raise(MsgId))
    ELSE LET hits == {i \in 1..Len(h[self]) : h[self][i].id = id.val}
         IN  IF hits # {}
             THEN Out(h, Return(int((CHOOSE i \in hits : \A j \in hits : i <= j) - 1)))
             ELSE Out(h, Return(int(-1)))

\* add without the sort
addNoSort(h, self, person) ==
    IF person.type # "Person" THEN Out(h, Raise(MsgPerson))
    ELSE LET f == find(h, self, int(person.id))
         IN  IF f.result.kind = "raise" THEN f
             ELSE IF f.result.value.val # -1 THEN Out(h, Raise(MsgDuplicate))
             ELSE Out([h EXCEPT ![self] = Append(@, person)], Return(None))

\* add that replaces the stored person before reporting the duplicate
addOverwrite(h, self, person) ==
    IF person.type # "Person" THEN Out(h, Raise(MsgPerson))
    ELSE LET f == find(h, self, int(person.id))
         IN  IF f.result.kind = "raise" THEN f
             ELSE IF f.result.value.val # -1
             THEN Out([h EXCEPT ![self][f.result.value.val + 1] = person],
                      Raise(MsgDuplicate))
             ELSE Out([h EXCEPT ![self] = SortById(Append(@, person))], Return(None))

\* add without the duplicate check
addNoCheck(h, self, person) ==
    IF person.type # "Person" THEN Out(h, Raise(MsgPerson))
    ELSE Out([h EXCEPT ![self] = SortById(Append(@, person))], Return(None))

\* add(person)
add(h, self, person) ==
    IF person.type # "Person" THEN Out(h, Raise(MsgPerson))
    ELSE LET f == find(h, self, int(person.id))
         IN  IF f.result.kind = "raise" THEN f
             ELSE IF f.result.value.val # -1 THEN Out(h, Raise(MsgDuplicate))
             ELSE Out([h EXCEPT ![self] = SortById(Append(@, person))], Return(None))

\* the id message reused for an absent id
find_by_idSameMsg(h, self, id) ==
    IF ~valid_id(id) THEN Out(h, Raise(MsgId))
    ELSE LET pos == find(h, self, id).result.value.val
         IN  IF pos # -1 THEN Out(h, Return(h[self][pos + 1]))
             ELSE Out(h, Raise(MsgId))

\* add, one access to self.__list at a time: another thread may run
\* between any two of them.
\* Lines 58-59, and find(person.id) as far as range(len(self.__list)) at
\* line 79: the number of rounds the loop of find is going to make
addCheck(h, self, person) ==
    IF person.type # "Person" THEN Out(h, Raise(MsgPerson))
    ELSE IF ~valid_id(int(person.id)) THEN Out(h, Raise(MsgId))
    ELSE Out(h, Return(int(Len(h[self]))))

\* a round of the loop that does not compare the ids
addScanNoCompare(h, self, person, n, i) ==
    IF i >= Len(h[self]) THEN Out(h, RaiseExc("IndexError", MsgIndex))
    ELSE IF i + 1 < n THEN Out(h, Continue)
    ELSE Out(h, Return(None))

\* round i of the n rounds of the loop of find (line 80), on the list as it
\* is now, and lines 61-62 on what find returns: self.__list[i] fails when
\* the list has become shorter than it was at line 79
addScan(h, self, person, n, i) ==
    IF i >= Len(h[self]) THEN Out(h, RaiseExc("IndexError", MsgIndex))
    ELSE IF h[self][i + 1].id = person.id THEN Out(h, Raise(MsgDuplicate))
    ELSE IF i + 1 < n THEN Out(h, Continue)
    ELSE Out(h, Return(None))

\* line 64: self.__list.append(person)
addAppend(h, self, person) ==
    Out([h EXCEPT ![self] = Append(@, person)], Return(None))

\* line 65, list.sort with a key function, as it begins: the items are taken
\* out of the list, which is empty while the key function is called on them
addSortBegin(h, self) ==
    Out([h EXCEPT ![self] = <<>>], Return(None))

\* line 65 as it ends: the items taken out come back in ascending id and
\* replace what was put into the list meanwhile; ValueError when the list
\* was written to meanwhile
addSortEnd(h, self, saved, written) ==
    Out([h EXCEPT ![self] = SortById(saved)],
        IF written THEN RaiseExc("ValueError", MsgSort) ELSE Return(None))

\* None in place of the not-found failure
find_by_idNone(h, self, id) ==
    IF ~valid_id(id) THEN Out(h, Raise(MsgId))
    ELSE LET pos == find(h, self, id).result.value.val
         IN  IF pos # -1 THEN Out(h, Return(h[self][pos + 1]))
             ELSE Out(h, Return(None))

\* self.__list[pos - 1] in place of self.__list[pos] (index -1: the last item)
find_by_idPrev(h, self, id) ==
    IF ~valid_id(id) THEN Out(h, Raise(MsgId))
    ELSE LET pos == find(h, self, id).result.value.val
         IN  IF pos # -1
             THEN Out(h, Return(h[self][IF pos = 0 THEN Len(h[self]) ELSE pos]))
             ELSE Out(h, Raise(MsgNotFound))

\* find_by_id(id)
find_by_id(h, self, id) ==
    IF ~valid_id(id) THEN Out(h, Raise(MsgId))
    ELSE LET pos == find(h, self, id).result.value.val
         IN  IF pos # -1 THEN Out(h, Return(h[self][pos + 1]))
             ELSE Out(h, Raise(MsgNotFound))

\* pos > len in place of pos >= len: list.pop(len) raises IndexError
removeOffByOne(h, self, pos) ==
    IF pos.type # "int" \/ (pos.val < 0 \/ pos.val > Len(h[self]))
    THEN Out(h, Raise(MsgPosition))
    ELSE IF pos.val = Len(h[self])
    THEN Out(h, [kind |-> "raise", exc |-> "IndexError",
                 msg |-> "pop index out of range"])
    ELSE Out([h EXCEPT ![self] = Pop(@, pos.val)], Return(h[self][pos.val + 1]))

\* remove(pos)
remove(h, self, pos) ==
    IF pos.type # "int" \/ (pos.val < 0 \/ pos.val >= Len(h[self]))
    THEN Out(h, Raise(MsgPosition))
    ELSE Out([h EXCEPT ![self] = Pop(@, pos.val)], Return(h[self][pos.val + 1]))

\* self.remove(id) in place of self.remove(pos)
remove_by_idAsPos(h, self, id) ==
    IF ~valid_id(id) THEN Out(h, Raise(MsgId))
    ELSE LET pos == find(h, self, id).result.value.val
         IN  IF pos # -1 THEN remove(h, self, id)
             ELSE Out(h, Raise(MsgNotFound))

\* remove_by_id(id)
remove_by_id(h, self, id) ==
    IF ~valid_id(id) THEN Out(h, Raise(MsgId))
    ELSE LET pos == find(h, self, id).result.value.val
         IN  IF pos # -1 THEN remove(h, self, int(pos))
             ELSE Out(h, Raise(MsgNotFound))

\* sort(key = ..., reverse = True) in __len__
lenDescending(h, self) ==
    LET asc == SortById(h[self])
        h1 == [h EXCEPT ![self] = [i \in 1..Len(asc) |-> asc[Len(asc) + 1 - i]]]
    IN  Out(h1, Return(int(Len(h1[self]))))

\* __len__(): sorts, then the length
len(h, self) ==
    LET h1 == [h EXCEPT ![self] = SortById(@)]
    IN  Out(h1, Return(int(Len(h1[self]))))

\* __iter__(): sorts, then an iterator over the list
iter(h, self) ==
    LET h1 == [h EXCEPT ![self] = SortById(@)]
    IN  Out(h1, Return(Iterator(h1[self])))

\* all(): the list itself
all(h, self) == Out(h, Return(ListOf(self)))

\* str(person): the short representation of a person, one line
PersonStr(p) == ToString(p.id) \o ". " \o p.name \o "\n"

\* the loop of __str__: ret += str(person), for the people of s in order
RECURSIVE Rendered(_)
Rendered(s) ==
    IF s = <<>> THEN ""
    ELSE Rendered(SubSeq(s, 1, Len(s) - 1)) \o PersonStr(s[Len(s)])

\* __str__(): the people rendered in list order, or "None\n"
to_str(h, self) ==
    LET ret == Rendered(h[self])
    IN  IF ret # "" THEN Out(h, Return(str(ret))) ELSE Out(h, Return(str("None\n")))


\* the loop of find_by_name / find_by_address / find_by_phone over
\* self.__list from position i on: people whose field contains s are added
\* to foundPeople; an exception of add leaves the loop (h0: the heap the
\* caller still sees then, the new object being unreachable)
RECURSIVE Scan(_, _, _, _, _, _)
Scan(h0, h, self, i, s, field) ==
    IF i > Len(h[self]) THEN Out(h, Return(Repo(Fresh)))
    ELSE IF Contains(h[self][i][field], s)
    THEN LET a == add(h, Fresh, h[self][i])
         IN  IF a.result.kind = "raise" THEN Out(h0, a.result)
             ELSE Scan(h0, a.heap, self, i + 1, s, field)
    ELSE Scan(h0, h, self, i + 1, s, field)

\* an empty name matches everybody: hand back the repository itself
find_by_nameShortcut(h, self, name) ==
    IF name.type # "str" THEN Out(h, Raise(MsgName))
    ELSE IF name.val = "" THEN Out(h, Return(Repo(self)))
    ELSE Scan(h, PersonRepository(h), self, 1, name.val, "name")

\* find_by_name(name)
find_by_name(h, self, name) ==
    IF name.type # "str" THEN Out(h, Raise(MsgName))
    ELSE Scan(h, PersonRepository(h), self, 1, name.val, "name")

\* find_by_address(address)
find_by_address(h, self, address) ==
    IF address.type # "str" THEN Out(h, Raise(MsgAddress))
    ELSE Scan(h, PersonRepository(h), self, 1, address.val, "address")

\* person.address in place of person.phone
find_by_phoneWrongField(h, self, phone) ==
    IF phone.type # "str" THEN Out(h, Raise(MsgPhone))
    ELSE Scan(h, PersonRepository(h), self, 1, phone.val, "address")

\* find_by_phone(phone)
find_by_phone(h, self, phone) ==
    IF phone.type # "str" THEN Out(h, Raise(MsgPhone))
    ELSE Scan(h, PersonRepository(h), self, 1, phone.val, "phone")

----------------------------------------------------------------------------
(* The callers' inputs *)

Ids == 1..MaxId
SnapIds == 1..MaxSnapId

\* name, phone, address of the people the callers build
Profiles == {<<"John", "1", "A">>, <<"Mary", "13", "AB">>, <<"Mike", "3", "B">>}
SnapProfiles == {<<"Mary", "13", "AB">>, <<"Mike", "3", "B">>}

People == {Person(i, pr[1], pr[2], pr[3]) : i \in Ids, pr \in Profiles}
SnapPeople == {Person(i, pr[1], pr[2], pr[3]) : i \in SnapIds, pr \in SnapProfiles}

NotAPerson == {EmptyList, int(1)}
NotAnInt == {EmptyList, Person(2, "Mary", "1", "B")}
NotAStr == {int(3)}

AddArgs == People \cup NotAPerson
IdArgs == {int(i) : i \in -1..(MaxId + 1)} \cup NotAnInt
PosArgs == {int(i) : i \in -1..(MaxId + 1)} \cup NotAnInt
Queries == {"", "M", "Mike", "ar", "Sophie", "1", "3", "B"}
StrArgs == {str(q) : q \in Queries} \cup NotAStr

SnapAddArgs == SnapPeople \cup {EmptyList}
SnapIdArgs == {int(i) : i \in 0..(MaxSnapId + 1)}
SnapPosArgs == {int(i) : i \in -1..MaxSnapId}
SnapStrArgs == {str(q) : q \in {"", "M", "Mike", "1"}}

----------------------------------------------------------------------------
(* The calls *)

\* the object a handle of the caller names: L is the repository under test,
\* P the repository a find_by_* returned
Obj(via) == IF via = "L" THEN First ELSE P

\* the threads, and a thread that has not entered add
Threads == {"t1", "t2"}
Idle == [pc |-> "idle", arg |-> None, result |-> None, n |-> 0, i |-> 0,
         saved |-> <<>>, savedTouched |-> FALSE, early |-> FALSE, locked |-> FALSE]

Init ==
    /\ list = [r \in Refs |-> <<>>]
    /\ P = NoHandle
    /\ call = [op |-> "__init__", via |-> "L", self |-> First, arg |-> None]
    /\ result = Return(None)
    /\ pre = [r \in Refs |-> <<>>]
    /\ thr = [t \in Threads |-> Idle]
    /\ touched = TRUE

\* a call of a method through the handle via, o its effect
Do(op, via, arg, o) ==
    /\ list' = o.heap
    /\ result' = o.result
    /\ call' = [op |-> op, via |-> via, self |-> Obj(via), arg |-> arg]
    /\ pre' = list
    /\ thr' = thr
    /\ touched' = touched

Add(via, person) ==
    Do("add", via, person, add(list, Obj(via), person)) /\ P' = P

Find(via, id) ==
    Do("find", via, id, find(list, Obj(via), id)) /\ P' = P

FindById(via, id) ==
    Do("find_by_id", via, id, find_by_id(list, Obj(via), id)) /\ P' = P

Remove(via, pos) ==
    Do("remove", via, pos, remove(list, Obj(via), pos)) /\ P' = P

RemoveById(via, id) ==
    Do("remove_by_id", via, id, remove_by_id(list, Obj(via), id)) /\ P' = P

Size(via) == Do("__len__", via, None, len(list, Obj(via))) /\ P' = P

Iterate(via) == Do("__iter__", via, None, iter(list, Obj(via))) /\ P' = P

All(via) == Do("all", via, None, all(list, Obj(via))) /\ P' = P

ToStr(via) == Do("__str__", via, None, to_str(list, Obj(via))) /\ P' = P

\* P = L.find_by_...(s): on success the caller's P names the object returned
Bind(o) == P' = IF o.result.kind = "return" THEN o.result.value.ref ELSE P

FindByName(name) ==
    LET o == find_by_name(list, First, name)
    IN  Do("find_by_name", "L", name, o) /\ Bind(o)

FindByAddress(address) ==
    LET o == find_by_address(list, First, address)
    IN  Do("find_by_address", "L", address, o) /\ Bind(o)

FindByPhone(phone) ==
    LET o == find_by_phone(list, First, phone)
    IN  Do("find_by_phone", "L", phone, o) /\ Bind(o)

\* the caller lets go of P: the object only P named is unreachable
Drop ==
    /\ P # NoHandle
    /\ Do("del", "P", None, Out([list EXCEPT ![Fresh] = <<>>], Return(None)))
    /\ P' = NoHandle

\* One caller working on the repository L; a repository a find_by_* returned
\* is let go before the next call.
Next ==
    \/ P = NoHandle /\ \E person \in AddArgs : Add("L", person)
    \/ P = NoHandle /\ \E id \in IdArgs : Find("L", id)
    \/ P = NoHandle /\ \E id \in IdArgs : FindById("L", id)
    \/ P = NoHandle /\ \E pos \in PosArgs : Remove("L", pos)
    \/ P = NoHandle /\ \E id \in IdArgs : RemoveById("L", id)
    \/ P = NoHandle /\ Size("L")
    \/ P = NoHandle /\ Iterate("L")
    \/ P = NoHandle /\ All("L")
    \/ P = NoHandle /\ ToStr("L")
    \/ P = NoHandle /\ \E name \in StrArgs : FindByName(name)
    \/ P = NoHandle /\ \E address \in StrArgs : FindByAddress(address)
    \/ P = NoHandle /\ \E phone \in StrArgs : FindByPhone(phone)
    \/ Drop

Spec == Init /\ [][Next]_vars

\* The caller keeps the repository P a find_by_* returned and goes on calling
\* methods of L and of P.
Handles == {"L"} \cup (IF P = NoHandle THEN {} ELSE {"P"})

NextSnapshot ==
    \/ \E via \in Handles, person \in SnapAddArgs : Add(via, person)
    \/ \E via \in Handles, pos \in SnapPosArgs : Remove(via, pos)
    \/ \E via \in Handles, id \in SnapIdArgs : RemoveById(via, id)
    \/ \E via \in Handles, id \in SnapIdArgs : Find(via, id)
    \/ \E via \in Handles : Size(via)
    \/ \E name \in SnapStrArgs : FindByName(name)
    \/ \E address \in SnapStrArgs : FindByAddress(address)
    \/ \E phone \in SnapStrArgs : FindByPhone(phone)

SpecSnapshot == Init /\ [][NextSnapshot]_vars

\* The caller keeps the list all() returned and uses it as a Python list.
\* all() returns the same list object every time, so "the caller holds it"
\* is: the last call was all(), or was itself a use of that list.
HoldsList ==
    \/ call.op = "all" /\ result.kind = "return"
    \/ call.via = "all()"

\* the object whose list the caller holds
Held == IF call.op = "all" THEN result.value.ref ELSE call.self

\* a use of the held list, o its effect
Use(op, arg, o) ==
    /\ HoldsList
    /\ list' = o.heap
    /\ result' = o.result
    /\ call' = [op |-> op, via |-> "all()", self |-> Held, arg |-> arg]
    /\ pre' = list
    /\ P' = P
    /\ thr' = thr
    /\ touched' = touched

\* L.all().append(x)
ListAppend(x) ==
    /\ Len(list[Held]) < MaxAliasLen
    /\ Use("list.append", x, Out([list EXCEPT ![Held] = Append(@, x)], Return(None)))

\* L.all().pop(): the last item, IndexError on an empty list
ListPop ==
    Use("list.pop", None,
        IF list[Held] = <<>>
        THEN Out(list, [kind |-> "raise", exc |-> "IndexError",
                        msg |-> "pop from empty list"])
        ELSE Out([list EXCEPT ![Held] = SubSeq(@, 1, Len(@) - 1)],
                 Return(list[Held][Len(list[Held])])))

\* L.all().reverse()
ListReverse ==
    Use("list.reverse", None,
        Out([list EXCEPT ![Held] = [i \in 1..Len(@) |-> @[Len(@) + 1 - i]]],
            Return(None)))

NextAlias ==
    \/ \E person \in SnapAddArgs : Add("L", person)
    \/ \E pos \in SnapPosArgs : Remove("L", pos)
    \/ \E id \in SnapIdArgs : RemoveById("L", id)
    \/ \E id \in SnapIdArgs : Find("L", id)
    \/ Size("L")
    \/ Iterate("L")
    \/ All("L")
    \/ \E x \in SnapPeople : ListAppend(x)
    \/ ListPop
    \/ ListReverse

SpecAlias == Init /\ [][NextAlias]_vars

\* Two threads call L.add.  The interpreter may switch threads between any
\* two accesses of add to self.__list, the calls of the key function inside
\* list.sort included.  A caller may wrap its call in a lock of its own
\* (`locked`): that keeps out the callers that take the lock, and no others.
\* `early` records that no caller had yet appended when this one's find
\* returned -1.
Holds(t) == thr[t].locked /\ thr[t].pc \notin {"idle", "done"}

\* thread u has executed line 64: it is at or inside the sort, or its add is
\* over and ended at line 65 (a call that raised at line 59, 62, 77 or 80
\* never reached line 64)
Appended(u) ==
    \/ thr[u].pc \in {"sort", "sorting"}
    \/ /\ thr[u].pc = "done"
       /\ thr[u].result \in {Return(None), RaiseExc("ValueError", MsgSort)}

NoneAppended == \A u \in Threads : ~Appended(u)

Step(t, pc, r, fields) ==
    thr' = [thr EXCEPT ![t] = [fields EXCEPT !.pc = pc, !.result = r]]

\* where the outcome o of the check or of a round of the loop leads
Checked(t, o, fields) ==
    IF o.result.kind = "raise" THEN Step(t, "done", o.result, fields)
    ELSE IF o.result.kind = "continue"
    THEN Step(t, "scan", None, [fields EXCEPT !.i = @ + 1])
    ELSE Step(t, "append", None, [fields EXCEPT !.early = NoneAppended])

\* thread t enters add(person): lines 58-59 and find as far as line 79
Enter(t, person, locked) ==
    /\ LET o == addCheck(list, First, person)
           f == [thr[t] EXCEPT !.arg = person, !.locked = locked]
       IN  IF o.result.kind = "raise" THEN Checked(t, o, f)
           ELSE IF o.result.value.val = 0
           THEN Checked(t, Out(list, Return(None)), f)
           ELSE Step(t, "scan", None, [f EXCEPT !.n = o.result.value.val])
    /\ UNCHANGED <<list, P, call, result, pre, touched>>

\* add(person) in thread t, no lock taken
AddCheck(t, person) ==
    /\ thr[t].pc = "idle"
    /\ Enter(t, person, FALSE)

\* add(person) in thread t under the caller's lock, which is free
AddLocked(t, person) ==
    /\ thr[t].pc = "idle"
    /\ \A u \in Threads : ~Holds(u)
    /\ Enter(t, person, TRUE)

\* a round of the loop of find in thread t (line 80), and lines 61-62 when
\* find returns
AddScan(t) ==
    /\ thr[t].pc = "scan"
    /\ Checked(t, addScan(list, First, thr[t].arg, thr[t].n, thr[t].i), thr[t])
    /\ UNCHANGED <<list, P, call, result, pre, touched>>

\* line 64 in thread t
AddAppend(t) ==
    /\ thr[t].pc = "append"
    /\ list' = addAppend(list, First, thr[t].arg).heap
    /\ touched' = TRUE
    /\ Step(t, "sort", None, thr[t])
    /\ UNCHANGED <<P, call, result, pre>>

\* line 65 in thread t as far as the first call of the key function; the
\* sort of an empty list calls no function and is over at once
AddSort(t) ==
    /\ thr[t].pc = "sort"
    /\ IF list[First] = <<>>
       THEN /\ Step(t, "done", Return(None), thr[t])
            /\ UNCHANGED <<list, touched>>
       ELSE /\ list' = addSortBegin(list, First).heap
            /\ touched' = FALSE
            /\ Step(t, "sorting", None,
                    [thr[t] EXCEPT !.saved = list[First], !.savedTouched = touched])
    /\ UNCHANGED <<P, call, result, pre>>

\* the rest of line 65 in thread t, and the return
AddSorted(t) ==
    /\ thr[t].pc = "sorting"
    /\ LET o == addSortEnd(list, First, thr[t].saved, touched)
       IN  /\ list' = o.heap
           /\ Step(t, "done", o.result, thr[t])
    /\ touched' = thr[t].savedTouched
    /\ UNCHANGED <<P, call, result, pre>>

NextThreads ==
    \/ \E t \in Threads, person \in AddArgs : AddCheck(t, person)
    \/ \E t \in Threads, person \in AddArgs : AddLocked(t, person)
    \/ \E t \in Threads : AddScan(t)
    \/ \E t \in Threads : AddAppend(t)
    \/ \E t \in Threads : AddSort(t)
    \/ \E t \in Threads : AddSorted(t)

SpecThreads == Init /\ [][NextThreads]_vars

----------------------------------------------------------------------------
(* Properties *)

Items(s) == {s[i] : i \in DOMAIN s}
IdsOf(s) == {s[i].id : i \in DOMAIN s}
StrictlyAscending(s) == \A i \in 1..(Len(s) - 1) : s[i].id < s[i + 1].id

\* the objects the caller can reach
Live == {Obj(via) : via \in Handles}

Mutators == {"add", "remove", "remove_by_id"}

\* the last call's argument was a Person / a valid id / a position in range
ArgIsPerson == call.arg.type = "Person"
ArgIsValidId == call.arg.type = "int" /\ call.arg.val >= 1
ArgIsPosition ==
    call.arg.type = "int" /\ call.arg.val >= 0 /\ call.arg.val < Len(pre[call.self])

\* C1: after any sequence of calls on an initially empty repository, the
\* list all() returns and the items iteration yields are in strictly
\* ascending id order.
C1_AscendingOrder ==
    \A r \in Live :
        /\ StrictlyAscending(list[all(list, r).result.value.ref])
        /\ StrictlyAscending(iter(list, r).result.value.items)

\* an add went through whose person the sort had to move between two others
C1_Witness ==
    /\ call.op = "add" /\ result = Return(None)
    /\ Len(list[First]) >= 2
    /\ call.arg.id < list[First][Len(list[First])].id
    /\ call.arg.id > list[First][1].id

\* C2: for every id k, at most one stored record has id k.
C2_UniqueIds ==
    \A r \in Live : \A k \in Ids :
        Cardinality({i \in DOMAIN list[r] : list[r][i].id = k}) <= 1

\* an add of an id already stored has just been attempted on a list of two
C2_Witness ==
    /\ call.op = "add" /\ ArgIsPerson
    /\ call.arg.id \in IdsOf(pre[First])
    /\ Len(list[First]) >= 2

\* C3: add(p) with p.id already stored raises the duplicate-id failure and
\* leaves every list exactly as it was, whatever p's other fields are.
C3_DuplicateRejected ==
    (call.op = "add" /\ ArgIsPerson /\ call.arg.id \in IdsOf(pre[call.self]))
        => result = Raise(MsgDuplicate) /\ list = pre

\* the rejected person differed from the stored one of the same id
C3_Witness ==
    /\ call.op = "add" /\ ArgIsPerson
    /\ result = Raise(MsgDuplicate)
    /\ \E q \in Items(pre[First]) :
          /\ q.id = call.arg.id
          /\ q.name # call.arg.name /\ q.phone # call.arg.phone
          /\ q.address # call.arg.address
    /\ Len(pre[First]) >= 2

\* C4: for a valid id k that is not stored, find_by_id(k) and remove_by_id(k)
\* raise the not-found failure and change nothing, and find(k) on that
\* repository returns -1 without raising.
C4_NotFound ==
    (ArgIsValidId /\ call.arg.val \notin IdsOf(pre[call.self]))
        => /\ call.op \in {"find_by_id", "remove_by_id"}
                => /\ result = Raise(MsgNotFound)
                   /\ list = pre
                   /\ find(list, call.self, call.arg).result = Return(int(-1))
           /\ call.op = "find" => result = Return(int(-1)) /\ list = pre

\* remove_by_id of an absent id between two stored ones has just failed
C4_Witness ==
    /\ call.op = "remove_by_id" /\ ArgIsValidId
    /\ result = Raise(MsgNotFound)
    /\ \E a, b \in IdsOf(list[First]) : a < call.arg.val /\ call.arg.val < b

\* C5: find, find_by_id and remove_by_id with an id that is not a positive
\* integer, add of a non-Person, and remove of a position that is not an
\* integer or lies outside [0, size), each raise the invalid-argument failure
\* of that method and leave every list as it was.
C5_InvalidArgument ==
    /\ (call.op \in {"find", "find_by_id", "remove_by_id"} /\ ~ArgIsValidId)
            => result = Raise(MsgId) /\ list = pre
    /\ (call.op = "add" /\ ~ArgIsPerson)
            => result = Raise(MsgPerson) /\ list = pre
    /\ (call.op = "remove" /\ ~ArgIsPosition)
            => result = Raise(MsgPosition) /\ list = pre

\* remove(size) has just been refused on a repository of two or more
C5_Witness ==
    /\ call.op = "remove" /\ call.arg.type = "int"
    /\ call.arg.val = Len(pre[First])
    /\ Len(pre[First]) >= 2
    /\ result.kind = "raise"

\* C6: add(p) of a Person whose id is not stored returns normally, makes the
\* list one longer, and find_by_id(p.id) right after it returns a record
\* equal to p in id, name, phone and address.
C6_AddThenFindById ==
    (call.op = "add" /\ ArgIsPerson /\ call.arg.id \notin IdsOf(pre[call.self]))
        => /\ result = Return(None)
           /\ Len(list[call.self]) = Len(pre[call.self]) + 1
           /\ LET got == find_by_id(list, call.self, int(call.arg.id))
              IN  /\ got.result.kind = "return"
                  /\ got.result.value.id = call.arg.id
                  /\ got.result.value.name = call.arg.name
                  /\ got.result.value.phone = call.arg.phone
                  /\ got.result.value.address = call.arg.address
                  /\ got.heap = list

\* a person was added in front of two stored ones
C6_Witness ==
    /\ call.op = "add" /\ result = Return(None)
    /\ Len(list[First]) = 3
    /\ list[First][1] = call.arg

\* s occurs in t as a contiguous run of characters
IsSubstring(s, t) == \E a, b \in 0..Len(t) : a <= b /\ SubSeq(t, a + 1, b) = s

\* the records of the list src whose field contains the string s
Matching(src, field, s) == {p \in Items(src) : IsSubstring(s, p[field])}

\* out holds exactly the records of src whose field contains s, once each,
\* in ascending id order
ExactlyMatching(out, src, field, s) ==
    /\ Items(out) = Matching(src, field, s)
    /\ Len(out) = Cardinality({i \in DOMAIN src : IsSubstring(s, src[i][field])})
    /\ StrictlyAscending(out)

\* C7: find_by_name, find_by_address and find_by_phone of a string s return a
\* repository holding exactly the source records whose name, address or phone
\* contains s: none missing, none extra, as many as match, ascending by id.
C7_SubstringSearch ==
    /\ (call.op = "find_by_name" /\ call.arg.type = "str")
          => /\ result.kind = "return"
             /\ ExactlyMatching(list[result.value.ref], pre[call.self],
                                "name", call.arg.val)
    /\ (call.op = "find_by_address" /\ call.arg.type = "str")
          => /\ result.kind = "return"
             /\ ExactlyMatching(list[result.value.ref], pre[call.self],
                                "address", call.arg.val)
    /\ (call.op = "find_by_phone" /\ call.arg.type = "str")
          => /\ result.kind = "return"
             /\ ExactlyMatching(list[result.value.ref], pre[call.self],
                                "phone", call.arg.val)

\* a search for a proper part of a field kept two records and left one out
C7_Witness ==
    /\ call.op \in {"find_by_name", "find_by_address", "find_by_phone"}
    /\ result.kind = "return"
    /\ Len(list[result.value.ref]) = 2
    /\ Len(list[First]) = 3
    /\ \E p \in Items(list[result.value.ref]) :
          call.arg.val \notin {p.name, p.address, p.phone}

\* C8: the repository a find_by_* returned is independent of its source: an
\* add, remove or remove_by_id through L leaves the membership and size of P
\* as they were, and one through P leaves those of L as they were.
C8_Snapshot ==
    (P # NoHandle /\ call.op \in Mutators)
        => /\ call.via = "L"
                => /\ Items(list[P]) = Items(pre[P])
                   /\ Len(list[P]) = Len(pre[P])
           /\ call.via = "P"
                => /\ Items(list[First]) = Items(pre[First])
                   /\ Len(list[First]) = Len(pre[First])

\* a person still stored in L has just been removed from P, and P holds an
\* id that L no longer holds
C8_Witness ==
    /\ P # NoHandle
    /\ call.op \in {"remove", "remove_by_id"} /\ call.via = "P"
    /\ result.kind = "return"
    /\ result.value \in Items(list[First])
    /\ IdsOf(list[P]) \ IdsOf(list[First]) # {}

\* C9: remove(pos) with 0 <= pos < size returns the record that was at pos,
\* makes the list one shorter, keeps the records below pos where they were and
\* moves each record above pos down by one; nothing else changes.
C9_RemoveShifts ==
    (call.op = "remove" /\ ArgIsPosition)
        => LET old == pre[call.self]
               new == list[call.self]
               pos == call.arg.val + 1
           IN  /\ result = Return(old[pos])
               /\ Len(new) = Len(old) - 1
               /\ \A q \in 1..(pos - 1) : new[q] = old[q]
               /\ \A q \in (pos + 1)..Len(old) : new[q - 1] = old[q]
               /\ \A r \in Refs \ {call.self} : list[r] = pre[r]

\* the middle one of three records has just been removed
C9_Witness ==
    /\ call.op = "remove" /\ result.kind = "return"
    /\ call.arg.val = 1
    /\ Len(pre[First]) = 3

\* C10: remove_by_id(k) with k stored returns the stored record of id k;
\* afterwards find(k) is -1, the list is one shorter and every record of
\* another id is still stored.
C10_RemoveById ==
    (call.op = "remove_by_id" /\ ArgIsValidId
        /\ call.arg.val \in IdsOf(pre[call.self]))
        => /\ result.kind = "return"
           /\ result.value \in Items(pre[call.self])
           /\ result.value.id = call.arg.val
           /\ find(list, call.self, call.arg).result = Return(int(-1))
           /\ Len(list[call.self]) = Len(pre[call.self]) - 1
           /\ \A p \in Items(pre[call.self]) :
                 p.id # call.arg.val => p \in Items(list[call.self])

\* the record of the largest id, stored last of three, has just been
\* removed by id
C10_Witness ==
    /\ call.op = "remove_by_id" /\ result.kind = "return"
    /\ Len(pre[First]) = 3
    /\ result.value = pre[First][3]

\* The failures the methods of L can signal in the current state, by the
\* condition that causes them.
AbsentIds == {id \in IdArgs : id.type = "int" /\ id.val >= 1
                               /\ id.val \notin IdsOf(list[First])}
BadIds == {id \in IdArgs : ~(id.type = "int" /\ id.val >= 1)}
BadPositions ==
    {pos \in PosArgs : ~(pos.type = "int" /\ pos.val >= 0
                          /\ pos.val < Len(list[First]))}

NotFoundFailures ==
    {find_by_id(list, First, id).result : id \in AbsentIds}
        \cup {remove_by_id(list, First, id).result : id \in AbsentIds}

InvalidArgumentFailures ==
    {find(list, First, id).result : id \in BadIds}
        \cup {find_by_id(list, First, id).result : id \in BadIds}
        \cup {remove_by_id(list, First, id).result : id \in BadIds}
        \cup {add(list, First, x).result : x \in NotAPerson}
        \cup {remove(list, First, pos).result : pos \in BadPositions}
        \cup {find_by_name(list, First, x).result : x \in NotAStr}
        \cup {find_by_address(list, First, x).result : x \in NotAStr}
        \cup {find_by_phone(list, First, x).result : x \in NotAStr}

DuplicateKeyFailures ==
    {add(list, First, p).result : p \in {q \in People : q.id \in IdsOf(list[First])}}

FailurePairs ==
    (NotFoundFailures \X InvalidArgumentFailures)
        \cup (NotFoundFailures \X DuplicateKeyFailures)
        \cup (InvalidArgumentFailures \X DuplicateKeyFailures)

\* C11 as stated: a not-found failure, an invalid-argument failure and a
\* duplicate-key failure are of pairwise different kinds (exception types).
C11_DistinctKinds ==
    /\ result \in NotFoundFailures
          => \A f \in InvalidArgumentFailures \cup DuplicateKeyFailures :
                 f.exc # result.exc
    /\ result \in InvalidArgumentFailures
          => \A f \in NotFoundFailures \cup DuplicateKeyFailures :
                 f.exc # result.exc
    /\ result \in DuplicateKeyFailures
          => \A f \in NotFoundFailures \cup InvalidArgumentFailures :
                 f.exc # result.exc

\* C11, amended: the three failures are all raised, with one and the same
\* exception type, NABException; what tells them apart is the message: the
\* not-found message differs from every invalid-argument message and both
\* differ from the duplicate-id message.
C11_DistinctMessages ==
    /\ \A f \in NotFoundFailures \cup InvalidArgumentFailures
                    \cup DuplicateKeyFailures :
           f.kind = "raise" /\ f.exc = "NABException"
    /\ \A pair \in FailurePairs : pair[1].msg # pair[2].msg
    /\ result.kind = "raise" => result.exc = "NABException"

\* an add has just been refused as a duplicate in a state where the other
\* two failures can be provoked as well
C11_Witness ==
    /\ call.op = "add" /\ result = Raise(MsgDuplicate)
    /\ NotFoundFailures # {}
    /\ InvalidArgumentFailures # {}
    /\ DuplicateKeyFailures # {}

\* C12: the list all() returns is a read-only view: whatever the caller does
\* with it (append, pop, reverse) leaves the repository's list as it was, so
\* the repository stays in strictly ascending id order without duplicate ids.
C12_ReadOnlyView ==
    /\ call.via = "all()" => list[First] = pre[First]
    /\ StrictlyAscending(list[First])

\* C13: find_by_name(""), find_by_address("") and find_by_phone("") each
\* return a repository holding every record of the source: the same records,
\* as many of them.
C13_EmptySubstring ==
    (/\ call.op \in {"find_by_name", "find_by_address", "find_by_phone"}
     /\ call.arg.type = "str" /\ call.arg.val = "")
        => /\ result.kind = "return"
           /\ Items(list[result.value.ref]) = Items(pre[call.self])
           /\ Len(list[result.value.ref]) = Len(pre[call.self])

\* find_by_phone("") has just returned all three records of a full repository
C13_Witness ==
    /\ call.op = "find_by_phone"
    /\ call.arg.type = "str" /\ call.arg.val = ""
    /\ Len(pre[First]) = 3
    /\ result.kind = "return" /\ Len(list[result.value.ref]) = 3

\* the number of records of l whose id is smaller than k
SmallerIds(l, k) == Cardinality({q \in DOMAIN l : l[q].id < k})

\* C14: for every valid id k: if k is stored, find(k) returns the one index i
\* in [0, size) with all()[i].id = k, and i is the number of stored records
\* of smaller id; if k is not stored, find(k) returns -1.
C14_FindPosition ==
    /\ \A k \in 1..(MaxId + 1) :
          LET r == find(list, First, int(k)).result
              l == list[all(list, First).result.value.ref]
          IN  IF k \in IdsOf(list[First])
              THEN /\ r.kind = "return"
                   /\ r.value.type = "int"
                   /\ r.value.val \in 0..(Len(l) - 1)
                   /\ l[r.value.val + 1].id = k
                   /\ \A j \in 0..(Len(l) - 1) : l[j + 1].id = k => j = r.value.val
                   /\ r.value.val = SmallerIds(list[First], k)
              ELSE r = Return(int(-1))
    /\ (call.op = "find" /\ ArgIsValidId)
          => /\ list = pre
             /\ result = Return(int(IF call.arg.val \in IdsOf(pre[call.self])
                                    THEN SmallerIds(pre[call.self], call.arg.val)
                                    ELSE -1))

\* find(3) has just returned 1: the record of id 3 is the second of two
C14_Witness ==
    /\ call.op = "find" /\ result = Return(int(1))
    /\ call.arg.val = 3
    /\ Len(list[First]) = 2

Readers ==
    {"__len__", "__iter__", "all", "find", "find_by_id", "find_by_name",
     "find_by_address", "find_by_phone", "__str__"}

\* C15: no read changes the repository: after size, iteration, all, find,
\* find_by_id, find_by_name/address/phone and string rendering, whether they
\* return or raise, the repository's list holds the same records at the same
\* positions as before; the sort that size and iteration run changes nothing,
\* the list being sorted already.
C15_ReadsChangeNothing ==
    /\ call.op \in Readers => list[call.self] = pre[call.self]
    /\ \A r \in Live :
          /\ len(list, r).heap = list
          /\ iter(list, r).heap = list

\* the size of a repository of three has just been taken
C15_Witness ==
    /\ call.op = "__len__"
    /\ result = Return(int(3))
    /\ Len(pre[First]) = 3

\* list.sort failed in a thread: the list was written to while it was sorted
SortFailure == RaiseExc("ValueError", MsgSort)

\* thread t has passed the checks of add and is at or past the append
Passed(t) ==
    /\ thr[t].pc \in {"append", "sort", "sorting", "done"}
    /\ thr[t].result \in {None, Return(None), SortFailure}

\* both threads add a person of one and the same id, and each one's find
\* returned -1 before either had appended
Overlapped ==
    /\ \A t \in Threads : Passed(t) /\ thr[t].early
    /\ thr["t1"].arg.id = thr["t2"].arg.id

AllDone == \A t \in Threads : thr[t].pc = "done"

\* every call of add is made under the lock
AllLocked == \A t \in Threads : thr[t].pc = "idle" \/ thr[t].locked

DuplicateIds ==
    {k \in Ids : Cardinality({i \in DOMAIN list[First] : list[First][i].id = k}) >= 2}

\* thread t's add returned normally, and its record is in the repository
Stored(t) == \E i \in DOMAIN list[First] : list[First][i] = thr[t].arg

\* C16 as the specification states it: when two threads add the same
\* unstored id and both make the find(id) == -1 check before either appends,
\* both insertions succeed and the repository holds two records of that id;
\* that state is unreachable when every add runs as one atomic step.
C16_InterleavedAdd ==
    /\ (Overlapped /\ AllDone)
          => /\ \A t \in Threads : thr[t].result = Return(None)
             /\ DuplicateIds = {thr["t1"].arg.id}
             /\ Len(list[First]) = 2
    /\ AllLocked => DuplicateIds = {}

\* C16, amended: when two threads add the same unstored id and both make the
\* find(id) == -1 check before either appends, neither call is rejected as a
\* duplicate, and once both are over either both have returned normally and
\* the repository holds two records of that id, or one has returned normally,
\* the other has failed with ValueError inside list.sort, and the repository
\* holds one record only.  Two records of one id arise only when both calls
\* passed their checks and not both held the lock; when every add is made
\* under the lock no id is stored twice, no call fails inside the list
\* operations, and every call that returned has its record stored.
C16_InterleavedOutcomes ==
    /\ (Overlapped /\ AllDone)
          => /\ \A t \in Threads : thr[t].result \in {Return(None), SortFailure}
             /\ \E t \in Threads : thr[t].result = Return(None)
             /\ (\A t \in Threads : thr[t].result = Return(None))
                   => /\ DuplicateIds = {thr["t1"].arg.id}
                      /\ Len(list[First]) = 2
             /\ (\E t \in Threads : thr[t].result = SortFailure)
                   => /\ Len(list[First]) = 1
                      /\ \E t \in Threads : list[First] = <<thr[t].arg>>
    /\ DuplicateIds # {}
          => /\ \A t \in Threads : Passed(t)
             /\ ~AllLocked
    /\ AllLocked
          => /\ DuplicateIds = {}
             /\ \A t \in Threads :
                   thr[t].pc = "done"
                     => /\ thr[t].result \in {Return(None), Raise(MsgPerson),
                                               Raise(MsgDuplicate)}
                        /\ (AllDone /\ thr[t].result = Return(None)) => Stored(t)

\* both calls made their check before either appended, both have returned
\* and the repository holds two different records of one id
C16_Witness ==
    /\ Overlapped /\ AllDone
    /\ \A t \in Threads : ~thr[t].locked /\ thr[t].result = Return(None)
    /\ Len(list[First]) = 2
    /\ list[First][1].id = list[First][2].id
    /\ list[First][1] # list[First][2]

\* both calls made their check before either appended; one was switched out
\* inside list.sort, failed there, and one record is all the repository holds
C16_SortFailureReached ==
    /\ Overlapped /\ AllDone
    /\ \E t \in Threads : thr[t].result = SortFailure
    /\ Len(list[First]) = 1

====
